---- MODULE Spec2Model ----
(***************************************************************************)
(* Model of PYnab.py: the YNAB daily report script.  One process run is    *)
(* main(): construct YNABEmailer from the environment, then either the     *)
(* SMTP self-test or run(): budget summary, categories, transactions,      *)
(* HTML rendering, report save, retention sweep, email.  The cursor file   *)
(* (.ynab_server_knowledge) and the report directory persist between the   *)
(* cron invocations.                                                       *)
(*                                                                         *)
(* Currency amounts are not part of the state: no operation modelled here  *)
(* branches on them.  The HTML text is an opaque token.                    *)
(***************************************************************************)
EXTENDS Integers, Sequences, FiniteSets, TLC

\* ------------------------------------------------------------------ bounds
MaxRuns == 2           \* cron invocations in one behaviour
MaxKnowledge == 1      \* the service's server_knowledge ranges over 0..MaxKnowledge
MaxGap == 1            \* instants that may pass between two invocations
MaxRetain == 1         \* configured RETAIN_REPORT_DAYS ranges over 0..MaxRetain
MaxGroups == 1         \* category groups in a response, get_categories alone
MaxCats == 1           \* categories per group, get_categories alone
MaxTxns == 2           \* transactions in a response, get_recent_transactions alone
MaxCursor == 11        \* cursor values 0..MaxCursor, the cursor functions alone

\* ------------------------------------------------------- program constants
DefaultRetainDays == 30
DayLen == 2            \* instants per day of the model clock

\* None, as a category name and as a server knowledge
None == "None"
NoKnowledge == -1

\* ------------------------------------------------------------- environment
RequiredVars ==
  {"YNAB_API_TOKEN", "BUDGET_ID", "EMAIL_USER", "EMAIL_PASS", "TO_EMAIL", "INCLUDED_GROUPS"}

\* os.getenv(var): unset gives None, otherwise the string; only emptiness matters
EnvValues == {"unset", "empty", "set"}

Falsy(v) == v \in {"unset", "empty"}

\* mutation: an empty value passes for a set one
missing_vars_unset_only(e) == {var \in RequiredVars : e[var] = "unset"}

missing_vars(e) == {var \in RequiredVars : Falsy(e[var])}

GroupNames == {"Essential", "Medical", "Credit Card Payments"}
CategoryNames == {"Rent", "Food"}

\* One comma-separated piece of INCLUDED_GROUPS is a name, possibly with
\* surrounding blanks, which group.strip() removes
Strip(item) == item.name

\* set(group.strip() for group in included_groups_env.split(','))
included_groups(list) == {Strip(list[i]) : i \in 1..Len(list)}

SeqsUpTo(S, n) == UNION {[1..k -> S] : k \in 0..n}

Item(name) == [pad |-> FALSE, name |-> name]
Padded(name) == [pad |-> TRUE, name |-> name]

\* Values of INCLUDED_GROUPS
IncludeLists ==
  { <<Item("Essential")>>,
    <<Item("Medical"), Padded("Essential")>>,
    <<Padded("Credit Card Payments"), Item("Essential")>>,
    <<Item("Credit Card Payments")>> }

\* --------------------------------------------------------------- categories
ApiCategories == [name : CategoryNames, hidden : BOOLEAN, deleted : BOOLEAN]

ApiGroups(c) ==
  [name : GroupNames, hidden : BOOLEAN, categories : SeqsUpTo(ApiCategories, c)]

CategoryResponses(g, c) == SeqsUpTo(ApiGroups(c), g)

RECURSIVE GroupCategories(_, _)
\* the inner loop of get_categories over group['categories']
GroupCategories(group, cats) ==
  IF cats = <<>> THEN <<>>
  ELSE LET category == Head(cats)
           rest == GroupCategories(group, Tail(cats))
       IN IF ~category.hidden /\ ~category.deleted
          THEN <<[group |-> group.name, name |-> category.name]>> \o rest
          ELSE rest

\* mutation: 'Credit Card Payments' is not singled out
SkipGroupListed(group, included) ==
  \/ group.hidden
  \/ group.name \notin included

SkipGroup(group, included) ==
  \/ group.hidden
  \/ group.name = "Credit Card Payments"
  \/ group.name \notin included

RECURSIVE FilterCategories(_, _)
\* the outer loop of get_categories over category_groups
FilterCategories(categories_data, included) ==
  IF categories_data = <<>> THEN <<>>
  ELSE LET group == Head(categories_data)
           rest == FilterCategories(Tail(categories_data), included)
       IN IF SkipGroup(group, included)
          THEN rest
          ELSE GroupCategories(group, group.categories) \o rest

\* {cat['name'] for cat in categories}
category_names(cats) == {cats[i].name : i \in 1..Len(cats)}

\* ------------------------------------------------------------- transactions
Years == {2025, 2026}
Months == {1, 12}
Days == {5}

\* The API's 'YYYY-MM-DD' text, as its three fields; BadDate is a text that
\* strptime rejects
ApiDates == {<<y, m, d>> : y \in Years, m \in Months, d \in Days}
BadDate == <<0, 0, 0>>

ApiTransactionFields ==
  [date : ApiDates \cup {BadDate}, category_name : CategoryNames \cup {None},
   approved : BOOLEAN, deleted : BOOLEAN]

\* payee_name stands for the row's content (payee, memo, amount): the
\* row's place in the response
WithPayee(fields) ==
  [i \in 1..Len(fields) |->
     [date |-> fields[i].date, category_name |-> fields[i].category_name,
      approved |-> fields[i].approved, deleted |-> fields[i].deleted,
      payee_name |-> i]]

TransactionResponses(n) == {WithPayee(f) : f \in SeqsUpTo(ApiTransactionFields, n)}

\* datetime.strptime(date, '%Y-%m-%d').strftime('%m/%d/%Y'): the text
\* 'MM/DD/YYYY', fixed width, as its fields in the order they are written
FormatDate(date) == <<date[2], date[3], date[1]>>

\* Python's str comparison of two 'MM/DD/YYYY' texts: lexicographic, so
\* field by field in written order
StrLess(a, b) ==
  \/ a[1] < b[1]
  \/ a[1] = b[1] /\ a[2] < b[2]
  \/ a[1] = b[1] /\ a[2] = b[2] /\ a[3] < b[3]

\* mutation: the approval flag is not looked at
SelectedUnapproved(transaction, included_category_names) ==
  /\ ~transaction.deleted
  /\ transaction.category_name # None
  /\ transaction.category_name \in included_category_names

Selected(transaction, included_category_names) ==
  /\ transaction.approved
  /\ ~transaction.deleted
  /\ transaction.category_name # None
  /\ transaction.category_name \in included_category_names

\* strptime raises ValueError for a selected transaction with a bad date
FilterRaises(transactions_data, included_category_names) ==
  \E i \in 1..Len(transactions_data) :
     /\ Selected(transactions_data[i], included_category_names)
     /\ transactions_data[i].date = BadDate

RECURSIVE FilterTransactions(_, _)
\* the loop of get_recent_transactions that builds recent_transactions
FilterTransactions(transactions_data, included_category_names) ==
  IF transactions_data = <<>> THEN <<>>
  ELSE LET transaction == Head(transactions_data)
           rest == FilterTransactions(Tail(transactions_data), included_category_names)
       IN IF Selected(transaction, included_category_names)
          THEN <<[date |-> FormatDate(transaction.date),
                  payee |-> transaction.payee_name,
                  category |-> transaction.category_name]>> \o rest
          ELSE rest

\* key=lambda x: x['date'], reverse=True: x goes before y
SortBefore(x, y) == StrLess(y.date, x.date)

RECURSIVE InsertSorted(_, _)
\* x, later in the input than every row of sorted, goes after the rows
\* that sort before it or equal to it (sorted() is stable, also reversed)
InsertSorted(x, sorted) ==
  IF sorted = <<>> THEN <<x>>
  ELSE IF SortBefore(x, Head(sorted))
       THEN <<x>> \o sorted
       ELSE <<Head(sorted)>> \o InsertSorted(x, Tail(sorted))

RECURSIVE SortedByDate(_)
\* sorted(recent_transactions, key=lambda x: x['date'], reverse=True)
SortedByDate(rows) ==
  IF rows = <<>> THEN <<>>
  ELSE InsertSorted(rows[Len(rows)], SortedByDate(SubSeq(rows, 1, Len(rows) - 1)))
\* --------------------------------------------------------------- the state
VARIABLES
  env,                  \* the required environment variables
  included_groups_env,  \* the value of INCLUDED_GROUPS, split at its commas
  retain_report_days,   \* int(os.getenv('RETAIN_REPORT_DAYS', '30'))
  argv,                 \* sys.argv[1] of this invocation
  pc,                   \* where the process is
  exitCode,             \* the exit status, NotExited while it runs
  error,                \* the step whose exception ended the pipeline
  now,                  \* the clock
  serverKnowledge,      \* the service's current server_knowledge
  cursorFile,           \* .ynab_server_knowledge
  reportDir,            \* the files of report_path
  budget_summary, categories, recent_transactions, report_path,  \* locals of run()
  apiCategories, apiTransactions,   \* the last response payloads
  requests,             \* API endpoints requested by this invocation
  summaryFailed,        \* a summary request of this invocation failed
  catFetch,             \* how this invocation's categories request ended
  txnQuery,             \* the query of this invocation's transactions request
  txnFetch,             \* how this invocation's transactions request ended
  thisK,                \* server_knowledge received by this invocation
  lastK,                \* server_knowledge last received by an earlier invocation
  cursorWrites,         \* writes of the cursor file by this invocation
  last_server_knowledge,  \* what get_server_knowledge() returned to this invocation
  saveOutcome,          \* how this invocation's save_server_knowledge ended
  smtpSessions, reportEmails, noticeAttempts, noticesSent,  \* SMTP, this invocation
  smtpTest,             \* what test_smtp_connection() returned to this invocation
  swept,                \* cleanup_old_reports ran in this invocation
  cutoff_date,          \* datetime.now() - timedelta(days) of the sweep just run
  removeFailed,         \* the files whose os.remove raised in the sweep just run
  sweepAborted,         \* listdir or getmtime raised in the sweep just run
  runs                  \* invocations so far

vars ==
  <<env, included_groups_env, retain_report_days, argv, pc, exitCode, error, now,
    serverKnowledge, cursorFile, reportDir, budget_summary, categories,
    recent_transactions, report_path, apiCategories, apiTransactions, requests,
    summaryFailed, catFetch, txnQuery, txnFetch, thisK, lastK, cursorWrites,
    last_server_knowledge, saveOutcome, smtpSessions, reportEmails, noticeAttempts,
    noticesSent, smtpTest, swept, cutoff_date, removeFailed, sweepAborted, runs>>

config == <<env, included_groups_env, retain_report_days>>
disk == <<cursorFile, reportDir>>
locals == <<budget_summary, categories, recent_transactions, report_path>>
payloads == <<apiCategories, apiTransactions>>
txnLog == <<txnQuery, txnFetch, thisK, cursorWrites, last_server_knowledge, saveOutcome>>
smtpLog == <<smtpSessions, reportEmails, noticeAttempts, noticesSent, smtpTest>>
sweepLog == <<swept, cutoff_date, removeFailed, sweepAborted>>

NotExited == -1
Modes == {"", "--test-smtp"}

\* What a call gives its caller: an exception, or a value
Raised == [raised |-> TRUE, value |-> <<>>]
Returned(v) == [raised |-> FALSE, value |-> v]

\* ------------------------------------------------------------ cursor file
\* The file's text is a sequence of characters
DigitChars == <<"0", "1", "2", "3", "4", "5", "6", "7", "8", "9">>

\* str(n) of a non-negative int: its decimal digits, most significant first
RECURSIVE str(_)
str(n) ==
  IF n < 10 THEN <<DigitChars[n + 1]>>
  ELSE str(n \div 10) \o <<DigitChars[(n % 10) + 1]>>

IsDigit(c) == \E d \in 1..10 : DigitChars[d] = c

DigitValue(c) == (CHOOSE d \in 1..10 : DigitChars[d] = c) - 1

RECURSIVE DecimalValue(_)
DecimalValue(text) ==
  IF text = <<>> THEN 0
  ELSE 10 * DecimalValue(SubSeq(text, 1, Len(text) - 1)) + DigitValue(text[Len(text)])

\* mutation: only the first digit is read
int_first_digit(text) ==
  IF text # <<>> /\ \A i \in 1..Len(text) : IsDigit(text[i])
  THEN Returned(DigitValue(text[1]))
  ELSE Raised

\* int(text): the value of a non-empty run of digits, ValueError otherwise
int(text) ==
  IF text # <<>> /\ \A i \in 1..Len(text) : IsDigit(text[i])
  THEN Returned(DecimalValue(text))
  ELSE Raised

NoFile == [exists |-> FALSE, text |-> <<>>]
EmptyFile == [exists |-> TRUE, text |-> <<>>]
IntFile(k) == [exists |-> TRUE, text |-> str(k)]

\* int(f.read().strip()) when the file exists; None when it is absent or
\* int() raises (the texts written here hold no blank for strip() to remove)
get_server_knowledge(file) ==
  IF file.exists /\ ~int(file.text).raised THEN int(file.text).value ELSE NoKnowledge

\* open(knowledge_file, 'w') truncates, f.write(str(k)) fills; an exception
\* of either is logged and swallowed
WriteOutcomes == {"written", "open_failed", "write_failed"}

\* mutation: the file is opened for appending
save_server_knowledge_appending(file, server_knowledge, outcome) ==
  CASE outcome = "written" -> [exists |-> TRUE, text |-> file.text \o str(server_knowledge)]
    [] outcome = "open_failed" -> file
    [] outcome = "write_failed" -> [exists |-> TRUE, text |-> file.text]

save_server_knowledge(file, server_knowledge, outcome) ==
  CASE outcome = "written" -> [exists |-> TRUE, text |-> str(server_knowledge)]
    [] outcome = "open_failed" -> file
    [] outcome = "write_failed" -> EmptyFile

\* `if last_server_knowledge:` is false for None and for 0
Truthy(knowledge) == knowledge # NoKnowledge /\ knowledge # 0

NoQuery == [param |-> "none", value |-> 0]

\* the query string of the transactions URL; yesterday is now - 1 day
TransactionsQuery(knowledge, clock) ==
  IF Truthy(knowledge)
  THEN [param |-> "last_knowledge_of_server", value |-> knowledge]
  ELSE [param |-> "since_date", value |-> clock - DayLen]

\* ---------------------------------------------------------- budget summary
SummaryEndpoints == <<"budget", "month", "accounts">>

CreditCard(balance) ==
  [type |-> "creditCard", closed |-> FALSE, deleted |-> FALSE, balance |-> balance]

\* Payloads of the three summary requests; amounts in milliunits
SummaryResponses ==
  [name : {"Family"}, to_be_budgeted : {5000},
   accounts : {<<>>, <<CreditCard(-2000), CreditCard(1000)>>}]

\* milliunits / 1000 (the payloads here hold whole units)
Units(milliunits) == milliunits \div 1000

Abs(x) == IF x < 0 THEN -x ELSE x

RECURSIVE credit_debt_total(_)
credit_debt_total(accounts_data) ==
  IF accounts_data = <<>> THEN 0
  ELSE LET account == Head(accounts_data)
           balance == Units(account.balance)
           owed == IF /\ account.type = "creditCard"
                      /\ ~account.closed
                      /\ ~account.deleted
                      /\ balance < 0
                   THEN Abs(balance) ELSE 0
       IN owed + credit_debt_total(Tail(accounts_data))

NoSummary ==
  [budget_name |-> "", month_name |-> "", ready_to_assign |-> 0, credit_debt_total |-> 0]

\* month_name is '%B %Y' of the API's month, or of datetime.now()
PlaceholderSummary ==
  [budget_name |-> "Your Budget", month_name |-> "now", ready_to_assign |-> 0,
   credit_debt_total |-> 0]

\* mutation: the exception of a summary request is raised again
get_budget_summary_raising(failed, resp) ==
  IF failed = 0
  THEN Returned([budget_name |-> resp.name, month_name |-> "api",
                 ready_to_assign |-> Units(resp.to_be_budgeted),
                 credit_debt_total |-> credit_debt_total(resp.accounts)])
  ELSE Raised

\* failed = 0: the three requests succeed; failed = i: the i-th one fails
\* (raise_for_status, or a KeyError/TypeError/ValueError on its payload)
get_budget_summary(failed, resp) ==
  IF failed = 0
  THEN Returned([budget_name |-> resp.name, month_name |-> "api",
                 ready_to_assign |-> Units(resp.to_be_budgeted),
                 credit_debt_total |-> credit_debt_total(resp.accounts)])
  ELSE Returned(PlaceholderSummary)

\* ------------------------------------------------ categories, transactions
\* mutation: the exception is swallowed and an empty list returned
get_categories_swallowing(outcome, categories_data, list) ==
  IF outcome = "ok"
  THEN Returned(FilterCategories(categories_data, included_groups(list)))
  ELSE Returned(<<>>)

\* outcome "ok": the request succeeds with payload categories_data;
\* otherwise the exception is logged and raised again
get_categories(outcome, categories_data, list) ==
  IF outcome = "ok"
  THEN Returned(FilterCategories(categories_data, included_groups(list)))
  ELSE Raised

\* mutation: the exception is raised again, as in get_categories
get_recent_transactions_raising(fetched, transactions_data, included_category_names) ==
  IF fetched /\ ~FilterRaises(transactions_data, included_category_names)
  THEN Returned(SortedByDate(FilterTransactions(transactions_data, included_category_names)))
  ELSE Raised

\* fetched: the request succeeded and its payload has 'transactions' and
\* 'server_knowledge'.  Any exception is logged as a warning and [] returned
get_recent_transactions(fetched, transactions_data, included_category_names) ==
  IF fetched /\ ~FilterRaises(transactions_data, included_category_names)
  THEN Returned(SortedByDate(FilterTransactions(transactions_data, included_category_names)))
  ELSE Returned(<<>>)

\* ------------------------------------------------------- report directory
ReportName(stamp) == [prefix |-> "ynab_report_", stamp |-> stamp, suffix |-> ".html"]
NoPath == [prefix |-> "", stamp |-> 0, suffix |-> ""]

\* filename.startswith('ynab_report_') and filename.endswith('.html')
IsReportName(name) == name.prefix = "ynab_report_" /\ name.suffix = ".html"

InitialFiles ==
  { [name |-> ReportName(0), mtime |-> 0],
    [name |-> [prefix |-> "notes_", stamp |-> 0, suffix |-> ".html"], mtime |-> 0],
    [name |-> [prefix |-> "ynab_report_", stamp |-> 0, suffix |-> ".bak"], mtime |-> 0] }

\* open(filepath, 'w') and write: the file of that name is (re)placed
WriteFile(dir, name, clock) ==
  {f \in dir : f.name # name} \cup {[name |-> name, mtime |-> clock]}

\* cutoff_date = datetime.now() - timedelta(days=self.retain_report_days)
NoCutoff == 0
Cutoff(clock, days) == clock - days * DayLen

\* mutation: the name of the file is not tested
OldFiles(dir, cutoff) == {f \in dir : f.mtime < cutoff}

\* file_mtime < cutoff_date of the files with a report name
OldReports(dir, cutoff) == {f \in dir : IsReportName(f.name) /\ f.mtime < cutoff}

\* Exit statuses
MainExitStatus == 1
RunExitStatus == 1

\* -------------------------------------------------------------------- Init
\* Payloads drawn by the full pipeline: one of each kind the steps after
\* the fetch tell apart
Group(name, hidden, category) ==
  [name |-> name, hidden |-> hidden,
   categories |-> <<[name |-> category, hidden |-> FALSE, deleted |-> FALSE]>>]

\* Values of INCLUDED_GROUPS drawn by the full pipeline
RunIncludeLists ==
  { <<Item("Essential")>>,
    <<Padded("Credit Card Payments"), Item("Essential")>> }

RunCategoryResponses ==
  { <<>>,
    <<Group("Essential", FALSE, "Rent")>>,
    <<Group("Medical", FALSE, "Food")>>,
    <<Group("Essential", TRUE, "Rent")>>,
    <<Group("Credit Card Payments", FALSE, "Rent")>> }

Transaction(date, category_name, approved) ==
  [date |-> date, category_name |-> category_name, approved |-> approved,
   deleted |-> FALSE]

RunTransactionResponses ==
  { WithPayee(<<>>),
    WithPayee(<<Transaction(<<2025, 12, 5>>, "Rent", TRUE)>>),
    WithPayee(<<Transaction(<<2026, 1, 5>>, "Food", TRUE)>>),
    WithPayee(<<Transaction(<<2026, 1, 5>>, "Rent", FALSE)>>),
    WithPayee(<<Transaction(BadDate, "Rent", TRUE)>>) }

FreshProcess ==
  /\ pc = "main"
  /\ exitCode = NotExited
  /\ error = "none"
  /\ budget_summary = NoSummary
  /\ categories = <<>>
  /\ recent_transactions = <<>>
  /\ report_path = NoPath
  /\ apiCategories = <<>>
  /\ apiTransactions = <<>>
  /\ requests = {}
  /\ summaryFailed = FALSE
  /\ catFetch = "none"
  /\ txnQuery = NoQuery
  /\ txnFetch = "none"
  /\ thisK = NoKnowledge
  /\ cursorWrites = 0
  /\ last_server_knowledge = NoKnowledge
  /\ saveOutcome = "none"
  /\ smtpSessions = 0
  /\ reportEmails = 0
  /\ noticeAttempts = 0
  /\ noticesSent = 0
  /\ smtpTest = "none"
  /\ swept = FALSE
  /\ cutoff_date = NoCutoff
  /\ removeFailed = {}
  /\ sweepAborted = FALSE

\* the same, of the next state
FreshProcessNext ==
  /\ pc' = "main"
  /\ exitCode' = NotExited
  /\ error' = "none"
  /\ budget_summary' = NoSummary
  /\ categories' = <<>>
  /\ recent_transactions' = <<>>
  /\ report_path' = NoPath
  /\ apiCategories' = <<>>
  /\ apiTransactions' = <<>>
  /\ requests' = {}
  /\ summaryFailed' = FALSE
  /\ catFetch' = "none"
  /\ txnQuery' = NoQuery
  /\ txnFetch' = "none"
  /\ thisK' = NoKnowledge
  /\ cursorWrites' = 0
  /\ last_server_knowledge' = NoKnowledge
  /\ saveOutcome' = "none"
  /\ smtpSessions' = 0
  /\ reportEmails' = 0
  /\ noticeAttempts' = 0
  /\ noticesSent' = 0
  /\ smtpTest' = "none"
  /\ swept' = FALSE
  /\ cutoff_date' = NoCutoff
  /\ removeFailed' = {}
  /\ sweepAborted' = FALSE

Init ==
  /\ env \in [RequiredVars -> EnvValues]
  /\ included_groups_env \in
       (IF Falsy(env["INCLUDED_GROUPS"]) THEN {<<>>} ELSE RunIncludeLists)
  /\ retain_report_days \in (0..MaxRetain) \cup {DefaultRetainDays}
  /\ argv \in Modes
  /\ now = DayLen * (MaxRetain + 1)
  /\ serverKnowledge \in 0..MaxKnowledge
  /\ cursorFile = NoFile
  /\ reportDir = InitialFiles
  /\ lastK = NoKnowledge
  /\ runs = 1
  /\ FreshProcess

\* ----------------------------------------------------------------- actions
\* mutation: the first argument is not looked at
AlwaysRun(arg) == "summary"

\* main(): `sys.argv[1] == '--test-smtp'` selects the self-test, else run()
Dispatch(arg) == IF arg = "--test-smtp" THEN "test_smtp" ELSE "summary"

\* main(): YNABEmailer() raises ValueError when a required variable is
\* missing, which main() logs before sys.exit(1)
Main ==
  /\ pc = "main"
  /\ IF missing_vars(env) # {}
     THEN /\ pc' = "exited"
          /\ exitCode' = MainExitStatus
          /\ error' = "config"
     ELSE /\ pc' = Dispatch(argv)
          /\ UNCHANGED <<exitCode, error>>
  /\ UNCHANGED <<config, argv, now, serverKnowledge, disk, locals, payloads, requests,
                 summaryFailed, catFetch, txnLog, lastK, smtpLog, sweepLog, runs>>

\* A call of run() that raised goes to the except block of run()
Step(result, step, next) ==
  IF result.raised
  THEN pc' = "handler" /\ error' = step
  ELSE pc' = next /\ error' = error

\* run(): budget_summary = self.get_budget_summary()
GetBudgetSummary ==
  /\ pc = "summary"
  /\ \E failed \in 0..Len(SummaryEndpoints), resp \in SummaryResponses :
       LET result == get_budget_summary(failed, resp)
           asked == IF failed = 0 THEN Len(SummaryEndpoints) ELSE failed
       IN /\ requests' = requests \cup {SummaryEndpoints[i] : i \in 1..asked}
          /\ summaryFailed' = (failed # 0)
          /\ budget_summary' = IF result.raised THEN budget_summary ELSE result.value
          /\ Step(result, "summary", "categories")
  /\ UNCHANGED <<config, argv, exitCode, now, serverKnowledge, disk, categories,
                 recent_transactions, report_path, payloads, txnLog, lastK, smtpLog,
                 sweepLog, runs, catFetch>>

\* mutation: run() goes on with an empty category list
NeverEmpty(result) == FALSE

\* `if not categories: return` after a get_categories() that returned
NoCategories(result) == ~result.raised /\ result.value = <<>>

\* run(): categories = self.get_categories(); if not categories: return
GetCategoriesOf(responses) ==
  /\ pc = "categories"
  /\ requests' = requests \cup {"categories"}
  /\ \E outcome \in {"ok", "failed"}, categories_data \in responses :
       LET result == get_categories(outcome, categories_data, included_groups_env)
       IN /\ outcome = "failed" => categories_data = <<>>
          /\ apiCategories' = categories_data
          /\ catFetch' = outcome
          /\ categories' = result.value
          /\ IF NoCategories(result)
             THEN pc' = "exited" /\ exitCode' = 0 /\ error' = error
             ELSE Step(result, "categories", "transactions") /\ exitCode' = exitCode
  /\ UNCHANGED <<config, argv, now, serverKnowledge, disk, budget_summary,
                 recent_transactions, report_path, apiTransactions, summaryFailed,
                 txnLog, lastK, smtpLog, sweepLog, runs>>

GetCategories == GetCategoriesOf(RunCategoryResponses)

\* run(): recent_transactions = self.get_recent_transactions(category_names)
GetRecentTransactionsOf(responses) ==
  /\ pc = "transactions"
  /\ requests' = requests \cup {"transactions"}
  /\ last_server_knowledge' = get_server_knowledge(cursorFile)
  /\ txnQuery' = TransactionsQuery(get_server_knowledge(cursorFile), now)
  /\ \E fetched \in BOOLEAN, transactions_data \in responses, written \in WriteOutcomes :
       LET result == get_recent_transactions(fetched, transactions_data,
                                             category_names(categories))
       IN /\ ~fetched => transactions_data = <<>> /\ written = "open_failed"
          /\ apiTransactions' = transactions_data
          /\ cursorFile' = IF fetched
                           THEN save_server_knowledge(cursorFile, serverKnowledge, written)
                           ELSE cursorFile
          /\ cursorWrites' = IF fetched /\ written # "open_failed"
                             THEN cursorWrites + 1 ELSE cursorWrites
          /\ saveOutcome' = IF fetched THEN written ELSE "none"
          /\ thisK' = IF fetched THEN serverKnowledge ELSE thisK
          /\ txnFetch' = IF ~fetched THEN "failed"
                         ELSE IF FilterRaises(transactions_data, category_names(categories))
                              THEN "filter_failed" ELSE "ok"
          /\ recent_transactions' = result.value
          /\ Step(result, "transactions", "render")
  /\ apiCategories' = <<>>
  /\ UNCHANGED <<config, argv, exitCode, now, serverKnowledge, reportDir, budget_summary,
                 categories, report_path, summaryFailed, catFetch, lastK, smtpLog, sweepLog, runs>>

GetRecentTransactions == GetRecentTransactionsOf(RunTransactionResponses)

\* run(): html_content = self.create_html_table(...); the lists are not
\* read after it
CreateHtmlTable ==
  /\ pc = "render"
  /\ \E result \in {Returned(<<>>), Raised} : Step(result, "render", "save")
  /\ categories' = <<>>
  /\ recent_transactions' = <<>>
  /\ apiTransactions' = <<>>
  /\ UNCHANGED <<config, argv, exitCode, now, serverKnowledge, disk, budget_summary,
                 report_path, apiCategories, requests, summaryFailed, catFetch, txnLog, lastK,
                 smtpLog, sweepLog, runs>>

\* run(): report_path = self.save_html_report(...): the exception of the
\* write is logged and raised again
SaveHtmlReport ==
  /\ pc = "save"
  /\ \/ /\ reportDir' = WriteFile(reportDir, ReportName(now), now)
        /\ report_path' = ReportName(now)
        /\ Step(Returned(<<>>), "save", "cleanup")
     \/ /\ UNCHANGED <<reportDir, report_path>>
        /\ Step(Raised, "save", "cleanup")
  /\ UNCHANGED <<config, argv, exitCode, now, serverKnowledge, cursorFile, budget_summary,
                 categories, recent_transactions, payloads, requests, summaryFailed, catFetch,
                 txnLog, lastK, smtpLog, sweepLog, runs>>

\* mutation: an exception of the sweep reaches run()
CleanupOldReportsRaising ==
  /\ pc = "cleanup"
  /\ \E elapsed \in 0..1, aborted \in BOOLEAN :
       LET cutoff == Cutoff(now + elapsed, retain_report_days)
           old == OldReports(reportDir, cutoff)
       IN /\ cutoff_date' = cutoff
          /\ sweepAborted' = aborted
          /\ \E attempted \in SUBSET old, failed \in SUBSET old :
               /\ failed \subseteq attempted
               /\ ~aborted => attempted = old
               /\ reportDir' = reportDir \ (attempted \ failed)
               /\ removeFailed' = failed
               /\ Step(IF aborted \/ failed # {} THEN Raised ELSE Returned(<<>>),
                       "cleanup", "send")
  /\ swept' = TRUE
  /\ UNCHANGED <<config, argv, exitCode, now, serverKnowledge, cursorFile, locals,
                 payloads, requests, summaryFailed, catFetch, txnLog, lastK, smtpLog, runs>>

\* run(): self.cleanup_old_reports(): os.remove is attempted on the old
\* reports the loop reaches, which are all of them unless listdir or getmtime
\* raised; the files of failed are those whose os.remove raised.  Every
\* exception is logged and swallowed.  The clock is read up to one instant
\* after the report was written
CleanupOldReports ==
  /\ pc = "cleanup"
  /\ \E elapsed \in 0..1, aborted \in BOOLEAN :
       LET cutoff == Cutoff(now + elapsed, retain_report_days)
           old == OldReports(reportDir, cutoff)
       IN /\ cutoff_date' = cutoff
          /\ sweepAborted' = aborted
          /\ \E attempted \in SUBSET old, failed \in SUBSET old :
               /\ failed \subseteq attempted
               /\ ~aborted => attempted = old
               /\ reportDir' = reportDir \ (attempted \ failed)
               /\ removeFailed' = failed
  /\ swept' = TRUE
  /\ pc' = "send"
  /\ UNCHANGED <<config, argv, exitCode, error, now, serverKnowledge, cursorFile, locals,
                 payloads, requests, summaryFailed, catFetch, txnLog, lastK, smtpLog, runs>>

\* run(): self.send_email(...): one SMTP session; any exception is logged
\* and raised again.  What the sweep logged is behind
SendEmail ==
  /\ pc = "send"
  /\ cutoff_date' = NoCutoff
  /\ removeFailed' = {}
  /\ sweepAborted' = FALSE
  /\ smtpSessions' = smtpSessions + 1
  /\ \/ /\ reportEmails' = reportEmails + 1
        /\ pc' = "exited"
        /\ exitCode' = 0
        /\ error' = error
     \/ /\ reportEmails' = reportEmails
        /\ Step(Raised, "send", "exited")
        /\ exitCode' = exitCode
  /\ UNCHANGED <<config, argv, now, serverKnowledge, disk, locals, payloads, requests,
                 summaryFailed, catFetch, txnLog, lastK, noticeAttempts, noticesSent, smtpTest,
                 swept, runs>>

\* mutation: the except block exits without the failure notice
ErrorHandlerSilent ==
  /\ pc = "handler"
  /\ pc' = "exited"
  /\ exitCode' = RunExitStatus
  /\ UNCHANGED <<config, argv, error, now, serverKnowledge, disk, locals, payloads,
                 requests, summaryFailed, catFetch, txnLog, lastK, smtpLog, sweepLog, runs>>

\* run(), except Exception: one attempt to send the failure notice, its own
\* exception swallowed, then sys.exit(1)
ErrorHandler ==
  /\ pc = "handler"
  /\ smtpSessions' = smtpSessions + 1
  /\ noticeAttempts' = noticeAttempts + 1
  /\ \E sent \in BOOLEAN : noticesSent' = IF sent THEN noticesSent + 1 ELSE noticesSent
  /\ pc' = "exited"
  /\ exitCode' = RunExitStatus
  /\ UNCHANGED <<config, argv, error, now, serverKnowledge, disk, locals, payloads,
                 requests, summaryFailed, catFetch, txnLog, lastK, reportEmails, smtpTest,
                 sweepLog, runs>>

\* main(): emailer.test_smtp_connection(): connect, STARTTLS, login, quit;
\* True or False is printed and main() returns
TestSmtpConnection ==
  /\ pc = "test_smtp"
  /\ smtpSessions' = smtpSessions + 1
  /\ \E passed \in BOOLEAN : smtpTest' = IF passed THEN "ok" ELSE "failed"
  /\ pc' = "exited"
  /\ exitCode' = 0
  /\ UNCHANGED <<config, argv, error, now, serverKnowledge, disk, locals, payloads,
                 requests, summaryFailed, catFetch, txnLog, lastK, reportEmails, noticeAttempts,
                 noticesSent, sweepLog, runs>>

\* cron starts the script again, later; the service has moved on or not
NextInvocation ==
  /\ pc = "exited"
  /\ runs < MaxRuns
  /\ runs' = runs + 1
  /\ argv' \in Modes
  /\ \E gap \in 1..MaxGap : now' = now + gap
  /\ serverKnowledge' \in serverKnowledge..MaxKnowledge
  /\ lastK' = IF thisK # NoKnowledge THEN thisK ELSE lastK
  /\ FreshProcessNext
  /\ UNCHANGED <<config, disk>>

Next ==
  \/ Main
  \/ GetBudgetSummary
  \/ GetCategories
  \/ GetRecentTransactions
  \/ CreateHtmlTable
  \/ SaveHtmlReport
  \/ CleanupOldReports
  \/ SendEmail
  \/ ErrorHandler
  \/ TestSmtpConnection
  \/ NextInvocation

Spec == Init /\ [][Next]_vars

\* ----------------------------------- get_categories on every small payload
AllSet == [var \in RequiredVars |-> "set"]

\* run() about to call get_categories, the summary having degraded
InitCategories ==
  /\ env = AllSet
  /\ included_groups_env \in IncludeLists
  /\ retain_report_days = DefaultRetainDays
  /\ argv = ""
  /\ now = DayLen * (MaxRetain + 1)
  /\ serverKnowledge = 0
  /\ cursorFile = NoFile
  /\ reportDir = InitialFiles
  /\ lastK = NoKnowledge
  /\ runs = 1
  /\ pc = "categories"
  /\ exitCode = NotExited
  /\ error = "none"
  /\ budget_summary = PlaceholderSummary
  /\ categories = <<>>
  /\ recent_transactions = <<>>
  /\ report_path = NoPath
  /\ apiCategories = <<>>
  /\ apiTransactions = <<>>
  /\ requests = {"budget"}
  /\ summaryFailed = TRUE
  /\ catFetch = "none"
  /\ txnQuery = NoQuery
  /\ txnFetch = "none"
  /\ thisK = NoKnowledge
  /\ cursorWrites = 0
  /\ last_server_knowledge = NoKnowledge
  /\ saveOutcome = "none"
  /\ smtpSessions = 0
  /\ reportEmails = 0
  /\ noticeAttempts = 0
  /\ noticesSent = 0
  /\ smtpTest = "none"
  /\ swept = FALSE
  /\ cutoff_date = NoCutoff
  /\ removeFailed = {}
  /\ sweepAborted = FALSE

AllCategoryResponses == CategoryResponses(MaxGroups, MaxCats)

NextCategories == GetCategoriesOf(AllCategoryResponses)

SpecCategories == InitCategories /\ [][NextCategories]_vars

\* ------------------------- get_recent_transactions on every small payload
VisibleCategory(name) == [name |-> name, hidden |-> FALSE, deleted |-> FALSE]

TrackedPayloads ==
  { <<[name |-> "Essential", hidden |-> FALSE,
       categories |-> <<VisibleCategory("Rent")>>]>>,
    <<[name |-> "Essential", hidden |-> FALSE,
       categories |-> <<VisibleCategory("Rent"), VisibleCategory("Food")>>]>> }

\* run() about to call get_recent_transactions, first run
InitTransactions ==
  /\ env = AllSet
  /\ included_groups_env = <<Item("Essential")>>
  /\ retain_report_days = DefaultRetainDays
  /\ argv = ""
  /\ now = DayLen * (MaxRetain + 1)
  /\ serverKnowledge = 1
  /\ cursorFile = NoFile
  /\ reportDir = InitialFiles
  /\ lastK = NoKnowledge
  /\ runs = 1
  /\ pc = "transactions"
  /\ exitCode = NotExited
  /\ error = "none"
  /\ budget_summary = PlaceholderSummary
  /\ apiCategories \in TrackedPayloads
  /\ categories = get_categories("ok", apiCategories, included_groups_env).value
  /\ recent_transactions = <<>>
  /\ report_path = NoPath
  /\ apiTransactions = <<>>
  /\ requests = {"budget", "categories"}
  /\ summaryFailed = TRUE
  /\ catFetch = "ok"
  /\ txnQuery = NoQuery
  /\ txnFetch = "none"
  /\ thisK = NoKnowledge
  /\ cursorWrites = 0
  /\ last_server_knowledge = NoKnowledge
  /\ saveOutcome = "none"
  /\ smtpSessions = 0
  /\ reportEmails = 0
  /\ noticeAttempts = 0
  /\ noticesSent = 0
  /\ smtpTest = "none"
  /\ swept = FALSE
  /\ cutoff_date = NoCutoff
  /\ removeFailed = {}
  /\ sweepAborted = FALSE

AllTransactionResponses == TransactionResponses(MaxTxns)

NextTransactions == GetRecentTransactionsOf(AllTransactionResponses)

SpecTransactions == InitTransactions /\ [][NextTransactions]_vars

\* --------------------------------------- cleanup_old_reports on small directories
SweepNow == DayLen * (MaxRetain + 1)

\* Two earlier reports of any age, and the files that are not reports
SweepDirs ==
  { {f \in InitialFiles : ~IsReportName(f.name)}
      \cup {[name |-> ReportName(0), mtime |-> t0], [name |-> ReportName(1), mtime |-> t1]} :
    t0 \in 0..SweepNow, t1 \in 1..SweepNow }

\* run() about to call cleanup_old_reports, the report of this run written
InitCleanup ==
  /\ env = AllSet
  /\ included_groups_env = <<Item("Essential")>>
  /\ retain_report_days \in (0..MaxRetain) \cup {DefaultRetainDays}
  /\ argv = ""
  /\ now = SweepNow
  /\ serverKnowledge = 1
  /\ cursorFile = IntFile(1)
  /\ \E dir \in SweepDirs : reportDir = WriteFile(dir, ReportName(now), now)
  /\ lastK = NoKnowledge
  /\ runs = 1
  /\ pc = "cleanup"
  /\ exitCode = NotExited
  /\ error = "none"
  /\ budget_summary = PlaceholderSummary
  /\ categories = <<>>
  /\ recent_transactions = <<>>
  /\ report_path = ReportName(now)
  /\ apiCategories = <<>>
  /\ apiTransactions = <<>>
  /\ requests = {"budget", "categories", "transactions"}
  /\ summaryFailed = TRUE
  /\ catFetch = "ok"
  /\ txnQuery = TransactionsQuery(NoKnowledge, now)
  /\ txnFetch = "ok"
  /\ thisK = 1
  /\ cursorWrites = 1
  /\ last_server_knowledge = NoKnowledge
  /\ saveOutcome = "written"
  /\ smtpSessions = 0
  /\ reportEmails = 0
  /\ noticeAttempts = 0
  /\ noticesSent = 0
  /\ smtpTest = "none"
  /\ swept = FALSE
  /\ cutoff_date = NoCutoff
  /\ removeFailed = {}
  /\ sweepAborted = FALSE

NextCleanup == CleanupOldReports

SpecCleanup == InitCleanup /\ [][NextCleanup]_vars

\* ------------------------------ save_server_knowledge, get_server_knowledge
\* the values saved: every small one, and one of three digits
CursorValues == (0..MaxCursor) \cup {500}

CursorFiles == {NoFile, EmptyFile} \cup {IntFile(k) : k \in CursorValues}

\* self.save_server_knowledge(current_server_knowledge)
SaveServerKnowledge ==
  /\ pc = "save_server_knowledge"
  /\ \E written \in WriteOutcomes :
       /\ cursorFile' = save_server_knowledge(cursorFile, serverKnowledge, written)
       /\ saveOutcome' = written
       /\ cursorWrites' = IF written # "open_failed" THEN cursorWrites + 1 ELSE cursorWrites
  /\ thisK' = serverKnowledge
  /\ pc' = "get_server_knowledge"
  /\ UNCHANGED <<config, argv, exitCode, error, now, serverKnowledge, reportDir, locals,
                 payloads, requests, summaryFailed, catFetch, txnQuery, txnFetch,
                 last_server_knowledge, lastK, smtpLog, sweepLog, runs>>

\* last_server_knowledge = self.get_server_knowledge(), and the query of the
\* transactions URL built from it
GetServerKnowledge ==
  /\ pc = "get_server_knowledge"
  /\ last_server_knowledge' = get_server_knowledge(cursorFile)
  /\ txnQuery' = TransactionsQuery(get_server_knowledge(cursorFile), now)
  /\ pc' = "request"
  /\ UNCHANGED <<config, argv, exitCode, error, now, serverKnowledge, disk, locals,
                 payloads, requests, summaryFailed, catFetch, txnFetch, thisK, cursorWrites,
                 saveOutcome, lastK, smtpLog, sweepLog, runs>>

\* a cursor file of any content, before a save or before a read
InitCursor ==
  /\ env = AllSet
  /\ included_groups_env = <<Item("Essential")>>
  /\ retain_report_days = DefaultRetainDays
  /\ argv = ""
  /\ now = DayLen * (MaxRetain + 1)
  /\ serverKnowledge \in CursorValues
  /\ cursorFile \in CursorFiles
  /\ reportDir = InitialFiles
  /\ lastK = NoKnowledge
  /\ runs = 1
  /\ pc \in {"save_server_knowledge", "get_server_knowledge"}
  /\ exitCode = NotExited
  /\ error = "none"
  /\ budget_summary = PlaceholderSummary
  /\ categories = <<>>
  /\ recent_transactions = <<>>
  /\ report_path = NoPath
  /\ apiCategories = <<>>
  /\ apiTransactions = <<>>
  /\ requests = {"budget", "categories"}
  /\ summaryFailed = TRUE
  /\ catFetch = "ok"
  /\ txnQuery = NoQuery
  /\ txnFetch = "none"
  /\ thisK = NoKnowledge
  /\ cursorWrites = 0
  /\ last_server_knowledge = NoKnowledge
  /\ saveOutcome = "none"
  /\ smtpSessions = 0
  /\ reportEmails = 0
  /\ noticeAttempts = 0
  /\ noticesSent = 0
  /\ smtpTest = "none"
  /\ swept = FALSE
  /\ cutoff_date = NoCutoff
  /\ removeFailed = {}
  /\ sweepAborted = FALSE

NextCursor == SaveServerKnowledge \/ GetServerKnowledge

SpecCursor == InitCursor /\ [][NextCursor]_vars

\* ------------------------------------------------------------------ claims
Delta(k) == [param |-> "last_knowledge_of_server", value |-> k]

TxnFetchFailed == txnFetch \in {"failed", "filter_failed"}

Exited == pc = "exited"

\* C1, as claimed: once the transactions request has failed or its payload
\* is malformed, the run neither renders, saves nor emails a report, and the
\* process exits non-zero.
C1_FetchFailureFailsRun ==
  TxnFetchFailed =>
    /\ pc \in {"handler", "exited"}
    /\ report_path = NoPath
    /\ reportEmails = 0
    /\ Exited => exitCode # 0

\* C1, amended: a failed transaction fetch raises nothing in run(): the list
\* of transactions is empty, and when no later step fails the report is
\* saved, the sweep runs, the report is emailed and the exit status is 0.
C1_FetchFailureGivesEmptyList ==
  TxnFetchFailed =>
    /\ error # "transactions"
    /\ pc # "transactions"
    /\ pc = "render" => recent_transactions = <<>>
    /\ (Exited /\ error = "none") =>
         (exitCode = 0 /\ report_path # NoPath /\ swept /\ reportEmails = 1)

C1_Witness ==
  /\ txnFetch = "failed"
  /\ Exited
  /\ exitCode = 0
  /\ reportEmails = 1
  /\ report_path # NoPath

\* C2: after a successful transactions response carrying k the cursor file
\* holds k for the rest of the run, and the transactions request of a later
\* run asks for the changes since the k last received.
C2_CursorHoldsReceivedKnowledge ==
  /\ thisK # NoKnowledge => cursorFile = IntFile(thisK)
  /\ (txnQuery # NoQuery /\ lastK # NoKnowledge) => txnQuery = Delta(lastK)

HoldsInteger(file) == file.exists /\ ~int(file.text).raised

\* C3: the transactions request asks for the changes since the cursor
\* whenever the cursor file holds an integer, and for the last 24 hours
\* only when it holds none.
C3_DeltaWheneverCursorExists ==
  [][pc = "transactions" =>
       /\ HoldsInteger(cursorFile) => txnQuery' = Delta(int(cursorFile.text).value)
       /\ txnQuery'.param = "since_date" => ~HoldsInteger(cursorFile)]_vars

\* C4: after a failed category fetch no transactions request is made, no
\* report file is written, no report email is sent, and the process exits
\* non-zero.
C4_CategoryFailureAborts ==
  catFetch = "failed" =>
    /\ pc \in {"handler", "exited"}
    /\ "transactions" \notin requests
    /\ txnQuery = NoQuery
    /\ report_path = NoPath
    /\ ~swept
    /\ reportEmails = 0
    /\ Exited => exitCode \notin {0, NotExited}

C4_Witness == catFetch = "failed" /\ Exited /\ noticesSent = 1

\* C5: when a summary request fails the summary is the placeholder, nothing
\* is raised, the category fetch follows, and a non-zero exit status is
\* always due to another step.
C5_SummaryFailureDegrades ==
  (summaryFailed /\ pc # "summary") =>
    /\ budget_summary = PlaceholderSummary
    /\ error # "summary"
    /\ pc # "categories" => "categories" \in requests
    /\ (Exited /\ exitCode # 0) => error \in {"categories", "render", "save", "send"}

C5_Witness ==
  /\ summaryFailed
  /\ "month" \in requests
  /\ "accounts" \notin requests
  /\ Exited
  /\ exitCode = 0
  /\ reportEmails = 1

\* C6: when the category fetch, the rendering, the report save or the email
\* send fails, the process makes exactly one attempt to send the failure
\* notice and exits non-zero, whether or not the notice is sent.
C6_FailureNoticeThenNonZero ==
  error \in {"categories", "render", "save", "send"} =>
    /\ pc \in {"handler", "exited"}
    /\ pc = "handler" => (noticeAttempts = 0 /\ exitCode = NotExited)
    /\ Exited => (noticeAttempts = 1 /\ exitCode \notin {0, NotExited})

C6_Witness ==
  /\ error = "send"
  /\ Exited
  /\ noticeAttempts = 1
  /\ noticesSent = 0
  /\ exitCode = 1

\* C7: with a required variable unset or empty the process exits non-zero
\* without any HTTP request or SMTP session, in both modes.
C7_MissingConfigFailsFast ==
  (\E var \in RequiredVars : env[var] \in {"unset", "empty"}) =>
    /\ pc \in {"main", "exited"}
    /\ requests = {}
    /\ smtpSessions = 0
    /\ Exited => (exitCode \notin {0, NotExited} /\ error = "config")

C7_Witness ==
  /\ env["TO_EMAIL"] = "empty"
  /\ \A var \in RequiredVars \ {"TO_EMAIL"} : env[var] = "set"
  /\ argv = "--test-smtp"
  /\ Exited
  /\ exitCode = 1

\* The transaction fetch has returned
Fetched == pc = "render"

Tracked == category_names(categories)

\* an approved, non-deleted transaction of a category of the report
Wanted(t) == t.approved /\ ~t.deleted /\ t.category_name \in Tracked

RowOf(t, row) == row.payee = t.payee_name /\ row.category = t.category_name

EveryRowWanted ==
  \A i \in 1..Len(recent_transactions) :
    \E j \in 1..Len(apiTransactions) :
      Wanted(apiTransactions[j]) /\ RowOf(apiTransactions[j], recent_transactions[i])

EveryWantedReturned ==
  \A j \in 1..Len(apiTransactions) :
    Wanted(apiTransactions[j]) =>
      \E i \in 1..Len(recent_transactions) :
        RowOf(apiTransactions[j], recent_transactions[i])

WantedWellFormed ==
  \A j \in 1..Len(apiTransactions) :
    Wanted(apiTransactions[j]) => apiTransactions[j].date \in ApiDates

Earlier(a, b) ==
  \/ a[3] < b[3]
  \/ a[3] = b[3] /\ a[1] < b[1]
  \/ a[3] = b[3] /\ a[1] = b[1] /\ a[2] < b[2]

\* C9: no returned transaction comes before one of a later date.
C9_DescendingByDate ==
  Fetched =>
    \A i, j \in 1..Len(recent_transactions) :
      i < j => ~Earlier(recent_transactions[i].date, recent_transactions[j].date)

\* The category fetch has returned
Listed == {included_groups_env[i].name : i \in 1..Len(included_groups_env)}

VisibleSource(row) ==
  \E g \in 1..Len(apiCategories) :
    /\ apiCategories[g].name = row.group
    /\ ~apiCategories[g].hidden
    /\ \E c \in 1..Len(apiCategories[g].categories) :
         /\ apiCategories[g].categories[c].name = row.name
         /\ ~apiCategories[g].categories[c].hidden
         /\ ~apiCategories[g].categories[c].deleted

\* C10: every returned category is of a group named in INCLUDED_GROUPS and
\* other than 'Credit Card Payments', and comes from a group that is not
\* hidden and a category that is neither hidden nor deleted.
C10_OnlyListedVisible ==
  catFetch = "ok" =>
    \A i \in 1..Len(categories) :
      /\ categories[i].group \in Listed
      /\ categories[i].group # "Credit Card Payments"
      /\ VisibleSource(categories[i])

C10_Witness ==
  /\ catFetch = "ok"
  /\ "Credit Card Payments" \in Listed
  /\ \E g \in 1..Len(apiCategories) :
       /\ apiCategories[g].name = "Credit Card Payments"
       /\ ~apiCategories[g].hidden
       /\ \E c \in 1..Len(apiCategories[g].categories) :
            /\ ~apiCategories[g].categories[c].hidden
            /\ ~apiCategories[g].categories[c].deleted
  /\ \A i \in 1..Len(categories) : categories[i].group # "Credit Card Payments"

HasFile(dir, name) == \E f \in dir : f.name = name

\* C11: a sweep removes nothing but report files older than the retention
\* period measured from its reading of the clock: a file of another name
\* stays, a report file that is not older stays, and an older report file
\* that stays is one whose os.remove raised or that the sweep, aborted by an
\* exception of listdir or getmtime, did not reach.
C11_SweepRemovesOldReportsOnly ==
  [][pc = "cleanup" =>
       /\ cutoff_date' - Cutoff(now, retain_report_days) \in 0..1
       /\ reportDir' \subseteq reportDir
       /\ \A f \in reportDir :
            /\ ~IsReportName(f.name) => f \in reportDir'
            /\ (IsReportName(f.name) /\ f.mtime >= cutoff_date') => f \in reportDir'
            /\ (IsReportName(f.name) /\ f.mtime < cutoff_date' /\ f \in reportDir') =>
                 (f \in removeFailed' \/ sweepAborted')]_vars

\* a completed sweep with one day of retention: the older report is gone,
\* the younger one and the files of other names are still there
C11_Witness ==
  /\ pc = "send"
  /\ retain_report_days = 1
  /\ ~sweepAborted
  /\ removeFailed = {}
  /\ ~HasFile(reportDir, ReportName(0))
  /\ \E f \in reportDir : f.name = ReportName(1) /\ f.mtime >= cutoff_date
  /\ \E f \in reportDir : ~IsReportName(f.name) /\ f.mtime < cutoff_date

SelfTest == argv = "--test-smtp"

\* C12: while the process runs in the self-test mode, no step of it makes
\* an API request, changes the cursor file or the report directory, or
\* sends a report email or a failure notice; its only SMTP session is the
\* one of the test, whether that passes or fails.
C12_SelfTestTouchesNothing ==
  [][(SelfTest /\ ~Exited) =>
       /\ cursorFile' = cursorFile
       /\ reportDir' = reportDir
       /\ requests' = {}
       /\ report_path' = NoPath
       /\ ~swept'
       /\ reportEmails' = 0
       /\ noticeAttempts' = 0
       /\ noticesSent' = 0
       /\ smtpSessions' = IF smtpTest' = "none" THEN 0 ELSE 1]_vars

\* a failed self-test in a second invocation, a cursor and a report of the
\* first one on the disk
C12_Witness ==
  /\ SelfTest
  /\ Exited
  /\ smtpTest = "failed"
  /\ runs = 2
  /\ cursorFile = IntFile(1)
  /\ \E f \in reportDir : IsReportName(f.name) /\ f.mtime > 0

\* get_server_knowledge() has returned
CursorRead == pc = "request"

AbsentReadsAsNone ==
  ~cursorFile.exists =>
    (last_server_knowledge = NoKnowledge /\ txnQuery = [param |-> "since_date", value |-> now - DayLen])

FetchSucceeds == pc = "transactions" /\ txnFetch' \in {"ok", "filter_failed"}

C15_NewReportSurvivesSweep ==
  (swept /\ report_path # NoPath) => HasFile(reportDir, report_path)

\* the category fetch returned an empty list and nothing was fetched since
EmptyCategoryList == catFetch = "ok" /\ categories = <<>> /\ txnFetch = "none"

\* C16: when the category fetch succeeds with an empty list after
\* filtering, the process ends there with exit status zero: no transactions
\* request, no report file, no sweep, no report email, no failure notice and
\* no SMTP session at all.
C16_EmptyCategoriesEndQuietly ==
  EmptyCategoryList =>
    /\ Exited
    /\ exitCode = 0
    /\ error = "none"
    /\ "transactions" \notin requests
    /\ txnQuery = NoQuery
    /\ cursorWrites = 0
    /\ report_path = NoPath
    /\ ~swept
    /\ smtpSessions = 0
    /\ reportEmails = 0
    /\ noticeAttempts = 0

\* the response had a visible category, of a group that is not listed
C16_Witness ==
  /\ EmptyCategoryList
  /\ Exited
  /\ exitCode = 0
  /\ "categories" \in requests
  /\ apiCategories = <<Group("Medical", FALSE, "Food")>>

SweepFailed == sweepAborted \/ removeFailed # {}

\* C17: a report email has been sent only in a run that wrote its report
\* file and made the sweep; after a failed save there is no sweep and no
\* report email; after the sweep, failed or not, the process is at the email
\* step or past it, and a failure of the run is then one of the email step.
C17_EmailAfterSaveAndSweep ==
  /\ reportEmails > 0 => (report_path # NoPath /\ swept)
  /\ pc = "send" => (report_path # NoPath /\ swept)
  /\ error = "save" => (report_path = NoPath /\ ~swept /\ reportEmails = 0)
  /\ SweepFailed => (pc = "send" /\ error = "none")
  /\ swept =>
       /\ pc \in {"send", "handler", "exited"}
       /\ error \in {"none", "send"}
       /\ Exited => (reportEmails = 1 \/ error = "send")

\* the report email was sent although a report older than the retention
\* period is still there: its removal failed or the sweep was aborted
C17_Witness ==
  /\ Exited
  /\ swept
  /\ reportEmails = 1
  /\ exitCode = 0
  /\ OldReports(reportDir, Cutoff(now, retain_report_days)) # {}

====
